---- MODULE Spec2Model ----
(***************************************************************************)
(* Model of the SSE server of smilad/eventic (package sse): the registry   *)
(* s.clients guarded by s.mu, one HandleSSE goroutine per connection, the  *)
(* Broadcast callers, the heartbeat goroutine, the removeClient goroutines *)
(* spawned for full queues, and Shutdown.                                  *)
(*                                                                         *)
(* Granularity.  A step is a lock acquisition, a channel operation or a    *)
(* sink write.  A critical section that contains no blocking operation is  *)
(* one step (the capacity check under RLock, the insertion under Lock).    *)
(* removeClient and Shutdown call Client.close, which takes the client's   *)
(* mutex while s.mu is held exclusively; sendEventToClient holds that      *)
(* mutex across the sink write, so these two keep s.mu over several steps. *)
(***************************************************************************)
EXTENDS Integers, Sequences, FiniteSets, TLC

\* ---- bounds of the model ----
NConns == 2          \* HandleSSE calls
NBcast == 1          \* external Broadcast calls
NShut == 2           \* Shutdown calls
MaxTicks == 1        \* heartbeat ticks
MaxClock == 2        \* readings of time.Now().UnixNano()

\* ---- configuration of the server ----
MaxConnections == 1
BufferSize == 1

Conns == 1..NConns           \* a HandleSSE call and the Client it creates
Ids == 1..MaxClock           \* client ids (clock readings)
Bcasters == 0..NBcast        \* 0 is the heartbeat goroutine
Shuts == 1..NShut
EventTypes == {"msg", "alert"}   \* eventType arguments of BroadcastToType
HB == 0

None == <<"none", 0>>
HPid(h) == <<"H", h>>
EPid(cid) == <<"E", cid>>
SPid(s) == <<"S", s>>

ZeroEvent == [type |-> "", data |-> 0]
ConnEvent(cid) == [type |-> "connection", data |-> cid]
BcastEvent(b, k) == IF b = HB THEN [type |-> "heartbeat", data |-> k]
                    ELSE [type |-> "msg", data |-> b]

VARIABLES
  config,         \* s.config: MaxConnections and BufferSize of this server
  clients,        \* s.clients: id -> Client (0: no entry)
  clientID,       \* Client.ID of the client of each HandleSSE call (0: not created)
  EventCh,        \* Client.EventCh: the buffered events
  chClosed,       \* Client.EventCh has been closed
  closed,         \* Client.closed
  cmu,            \* Client.mu is held (by sendEventToClient of its handler)
  pcH,            \* position of each HandleSSE call
  cur,            \* the event a handler is sending
  reqDone,        \* r.Context().Done() of each request
  written,        \* events written to each sink, in order
  sent,           \* events enqueued to each client, in order
  muW,            \* holder of s.mu.Lock
  muR,            \* holders of s.mu.RLock
  pcB,            \* position of each Broadcast call / of the heartbeat
  todoB,          \* ids the range loop of a Broadcast has still to visit
  eventType,      \* eventType argument of a running BroadcastToType call ("": none)
  ticks,          \* heartbeat ticks so far
  evq,            \* go s.removeClient(id) goroutines not yet finished, per id
  pcS,            \* position of each Shutdown call
  todoS,          \* ids the range loop of a Shutdown has still to visit
  cancelled,      \* s.ctx is cancelled
  shutdownClosed, \* s.shutdown is closed
  panicked,       \* a goroutine panicked (the process is gone)
  clock,          \* last reading of the clock
  wire            \* one sendEventToClient call looked at on its own: its inputs and result

serverVars == <<config, clients, clientID, EventCh, chClosed, closed, cmu, pcH, cur, reqDone,
          written, sent, muW, muR, pcB, todoB, eventType, ticks, evq, pcS, todoS,
          cancelled, shutdownClosed, panicked, clock>>
vars == <<serverVars, wire>>

hvars == <<clientID, pcH, cur, reqDone, written>>
bvars == <<pcB, todoB, eventType, ticks, sent>>
svars == <<pcS, todoS, cancelled, shutdownClosed, panicked>>
cvars == <<EventCh, chClosed, closed, cmu>>

\* ---- the wire format: sendEventToClient as a function of the event ----
\* Event.Data is an interface{}: kind is its dynamic type, and of s (a string, the
\* text of a float, the address of a channel), b (the bytes, one character each),
\* n (an int) and m (the entries of a map) the one the kind uses is set.
DataOf(kind, str, bytes, num, entries) ==
  [kind |-> kind, s |-> str, b |-> bytes, n |-> num, m |-> entries]
StringData(v) == DataOf("string", v, <<>>, 0, <<>>)
BytesData(v) == DataOf("bytes", "", v, 0, <<>>)
IntData(v) == DataOf("int", "", <<>>, v, <<>>)
NilData == DataOf("nil", "", <<>>, 0, <<>>)
FloatData(v) == DataOf("float", v, <<>>, 0, <<>>)
ChanData(addr) == DataOf("chan", addr, <<>>, 0, <<>>)
MapData(entries) == DataOf("map", "", <<>>, 0, entries)
MapEntry(key, isNum, str, num) == [key |-> key, isNum |-> isNum, s |-> str, n |-> num]

\* The payloads of TestBroadcast and TestEventDataTypes, and values json.Marshal
\* refuses (a NaN, a channel).
Datas ==
  { StringData("hello"), StringData("Hello, World!"), StringData("string data"), StringData(""),
    BytesData(<<"b", "y", "t", "e", " ", "d", "a", "t", "a">>),
    IntData(42), NilData,
    MapData(<<MapEntry("number", TRUE, "", 42), MapEntry("key", FALSE, "value", 0)>>),
    FloatData("NaN"), ChanData("0xc00001a0c0") }
EventIDs == {"", "7", "test-123"}
WireTypes == {"", "x", "test"}
WireEvent(id, type, data) == [ID |-> id, Type |-> type, Data |-> data]
WireEvents == {WireEvent(id, ty, d) : id \in EventIDs, ty \in WireTypes, d \in Datas}

RECURSIVE stringOfBytes(_)
\* string(v) of a []byte
stringOfBytes(v) == IF v = <<>> THEN "" ELSE Head(v) \o stringOfBytes(Tail(v))

\* encoding/json writes the keys of a map in sorted order.
SortedKeys == <<"key", "number">>
jsonValue(e) == IF e.isNum THEN ToString(e.n) ELSE "\"" \o e.s \o "\""
RECURSIVE jsonMembers(_, _)
jsonMembers(m, i) ==
  IF i > Len(SortedKeys) THEN <<>>
  ELSE LET here == SelectSeq(m, LAMBDA e : e.key = SortedKeys[i])
       IN (IF here = <<>> THEN <<>>
           ELSE <<"\"" \o here[1].key \o "\":" \o jsonValue(here[1])>>) \o jsonMembers(m, i + 1)
RECURSIVE joinComma(_)
joinComma(q) ==
  IF q = <<>> THEN ""
  ELSE IF Len(q) = 1 THEN q[1] ELSE q[1] \o "," \o joinComma(Tail(q))

\* json.Marshal(event.Data): the text, or an error for a value it does not support.
jsonMarshal(d) ==
  CASE d.kind = "int" -> [err |-> FALSE, text |-> ToString(d.n)]
    [] d.kind = "nil" -> [err |-> FALSE, text |-> "null"]
    [] d.kind = "map" -> [err |-> FALSE, text |-> "{" \o joinComma(jsonMembers(d.m, 1)) \o "}"]
    [] d.kind = "string" -> [err |-> FALSE, text |-> "\"" \o d.s \o "\""]
    [] OTHER -> [err |-> TRUE, text |-> ""]

\* fmt.Sprintf("%v", event.Data) of such a value: "NaN", the address of the channel.
fmtV(d) == d.s

\* (a conversion that gives up on a value json.Marshal refuses)
dataStrNoFallback(d) ==
  CASE d.kind = "string" -> d.s
    [] d.kind = "bytes" -> stringOfBytes(d.b)
    [] OTHER -> jsonMarshal(d).text

\* The type switch on event.Data.
dataStr(d) ==
  CASE d.kind = "string" -> d.s
    [] d.kind = "bytes" -> stringOfBytes(d.b)
    [] OTHER -> IF ~jsonMarshal(d).err THEN jsonMarshal(d).text ELSE fmtV(d)

\* (the event line written before the id line)
eventStrTypeFirst(e) ==
  LET s1 == IF e.Type # "" THEN "event: " \o e.Type \o "\n" ELSE ""
      s2 == IF e.ID # "" THEN s1 \o "id: " \o e.ID \o "\n" ELSE s1
  IN s2 \o "data: " \o dataStr(e.Data) \o "\n\n"

\* eventStr as sendEventToClient builds it, one += after the other.
eventStr(e) ==
  LET s1 == IF e.ID # "" THEN "id: " \o e.ID \o "\n" ELSE ""
      s2 == IF e.Type # "" THEN s1 \o "event: " \o e.Type \o "\n" ELSE s1
  IN s2 \o "data: " \o dataStr(e.Data) \o "\n\n"

\* No call is looked at.
NoWire == [event |-> WireEvent("", "", NilData), closed |-> FALSE, writeOk |-> FALSE,
           out |-> "", err |-> "none"]

\* The call: client.closed fails it, else the text is written and flushed, or the
\* write fails.
sendEventToClient ==
  /\ wire.err = "pending"
  /\ wire' = IF wire.closed
             THEN [wire EXCEPT !.err = "client connection closed"]
             ELSE IF wire.writeOk
             THEN [wire EXCEPT !.out = eventStr(wire.event), !.err = "nil"]
             ELSE [wire EXCEPT !.err = "write error"]
  /\ UNCHANGED serverVars

Registered == {cid \in Ids : clients[cid] # 0}
GetConnectionCount == Cardinality(Registered)

\* NewServerWithConfig(cfg): everything but the configuration.
InitServer ==
  /\ clients = [cid \in Ids |-> 0]
  /\ clientID = [h \in Conns |-> 0]
  /\ EventCh = [h \in Conns |-> <<>>]
  /\ chClosed = [h \in Conns |-> FALSE]
  /\ closed = [h \in Conns |-> FALSE]
  /\ cmu = [h \in Conns |-> FALSE]
  /\ pcH = [h \in Conns |-> "start"]
  /\ cur = [h \in Conns |-> ZeroEvent]
  /\ reqDone = [h \in Conns |-> FALSE]
  /\ written = [h \in Conns |-> <<>>]
  /\ sent = [h \in Conns |-> <<>>]
  /\ muW = None
  /\ muR = {}
  /\ pcB = [b \in Bcasters |-> "idle"]
  /\ todoB = [b \in Bcasters |-> {}]
  /\ eventType = [b \in Bcasters |-> ""]
  /\ ticks = 0
  /\ evq = [cid \in Ids |-> 0]
  /\ pcS = [s \in Shuts |-> "idle"]
  /\ todoS = [s \in Shuts |-> {}]
  /\ cancelled = FALSE
  /\ shutdownClosed = FALSE
  /\ panicked = FALSE
  /\ clock = 1

Init ==
  /\ config = [MaxConnections |-> MaxConnections, BufferSize |-> BufferSize]
  /\ InitServer
  /\ wire = NoWire

\* A server with room for every connection of the model.
InitRoomy ==
  /\ config = [MaxConnections |-> NConns, BufferSize |-> BufferSize]
  /\ InitServer
  /\ wire = NoWire

\* One sendEventToClient call on any event, on an open or closed client, over a
\* sink whose write succeeds or fails; the server does nothing.
InitWire ==
  /\ config = [MaxConnections |-> MaxConnections, BufferSize |-> BufferSize]
  /\ InitServer
  /\ \E e \in WireEvents, c \in BOOLEAN, ok \in BOOLEAN :
       wire = [event |-> e, closed |-> c, writeOk |-> ok, out |-> "", err |-> "pending"]

\* ---- s.mu (sync.RWMutex) ----
CanRLock == muW = None
CanLock(p) == muW = p \/ (muW = None /\ muR = {})

\* ---- Client.close ----
closedAfterClose(c) == [closed EXCEPT ![c] = TRUE]
chClosedAfterClose(c) == [chClosed EXCEPT ![c] = TRUE]

\* close() needs c.mu; it is a no-op on a closed client.
ClientClose(c) ==
  /\ ~cmu[c]
  /\ closed' = closedAfterClose(c)
  /\ chClosed' = IF closed[c] THEN chClosed ELSE chClosedAfterClose(c)

\* ---- removeClient ----
\* removeClient(id) run by p blocks inside close() while the client's mutex is held.
removeBlocked(cid) == clients[cid] # 0 /\ cmu[clients[cid]]

\* (a removal that closes the client and leaves its entry in the map)
clientsNotDeleted(cid) == clients
\* delete(s.clients, clientID)
clientsAfterDelete(cid) == [clients EXCEPT ![cid] = 0]

removeClient(p, cid) ==
  /\ CanLock(p)
  /\ IF clients[cid] = 0
     THEN /\ muW' = None
          /\ UNCHANGED <<clients, closed, chClosed>>
     ELSE IF removeBlocked(cid)
     THEN /\ muW' = p
          /\ UNCHANGED <<clients, closed, chClosed>>
     ELSE /\ ClientClose(clients[cid])
          /\ clients' = clientsAfterDelete(cid)
          /\ muW' = None

\* ---- HandleSSE ----
\* Flusher check, then the connection limit check under RLock.
limitReachedOffByOne == GetConnectionCount > config.MaxConnections

limitReached == GetConnectionCount >= config.MaxConnections

\* (the connection limit is checked first, the Flusher assertion second)
HandleCheckLimitFirst(h, flusher, t) ==
  /\ pcH[h] = "start"
  /\ CanRLock
  /\ IF limitReached
     THEN /\ pcH' = [pcH EXCEPT ![h] = "rejected503"]
          /\ UNCHANGED <<clientID, clock>>
     ELSE IF ~flusher
     THEN /\ pcH' = [pcH EXCEPT ![h] = "rejected500"]
          /\ UNCHANGED <<clientID, clock>>
     ELSE /\ t >= clock
          /\ clock' = t
          /\ clientID' = [clientID EXCEPT ![h] = t]
          /\ pcH' = [pcH EXCEPT ![h] = "register"]
  /\ UNCHANGED <<clients, cur, reqDone, written, cvars, muW, muR, bvars, evq, svars>>

HandleCheck(h, flusher, t) ==
  /\ pcH[h] = "start"
  /\ IF ~flusher
     THEN /\ pcH' = [pcH EXCEPT ![h] = "rejected500"]
          /\ UNCHANGED <<clientID, clock>>
     ELSE /\ CanRLock
          /\ IF limitReached
             THEN /\ pcH' = [pcH EXCEPT ![h] = "rejected503"]
                  /\ UNCHANGED <<clientID, clock>>
             ELSE \* generateClientID and the Client literal
                  /\ t >= clock
                  /\ clock' = t
                  /\ clientID' = [clientID EXCEPT ![h] = t]
                  /\ pcH' = [pcH EXCEPT ![h] = "register"]
  /\ UNCHANGED <<clients, cur, reqDone, written, cvars, muW, muR, bvars, evq, svars>>

clientsAfterRegister(h) == [clients EXCEPT ![clientID[h]] = h]

\* (a handler that enters its loop without sending the connection event)
HandleRegisterNoGreeting(h) ==
  /\ pcH[h] = "register"
  /\ CanLock(HPid(h))
  /\ clients' = clientsAfterRegister(h)
  /\ pcH' = [pcH EXCEPT ![h] = "loop"]
  /\ UNCHANGED <<clientID, cur, reqDone, written, cvars, muW, muR, bvars, evq, svars, clock>>

HandleRegister(h) ==
  /\ pcH[h] = "register"
  /\ CanLock(HPid(h))
  /\ clients' = clientsAfterRegister(h)
  /\ cur' = [cur EXCEPT ![h] = ConnEvent(clientID[h])]
  /\ pcH' = [pcH EXCEPT ![h] = "send"]
  /\ UNCHANGED <<clientID, reqDone, written, cvars, muW, muR, bvars, evq, svars, clock>>

\* (a sendEventToClient that does not look at client.closed)
SendBeginNoClosedCheck(h) ==
  /\ pcH[h] = "send"
  /\ ~cmu[h]
  /\ pcH' = [pcH EXCEPT ![h] = "writing"]
  /\ cmu' = [cmu EXCEPT ![h] = TRUE]
  /\ UNCHANGED <<clients, clientID, cur, reqDone, written, EventCh, chClosed, closed,
                 muW, muR, bvars, evq, svars, clock>>

\* sendEventToClient up to the write: take client.mu, fail on a closed client.
SendBegin(h) ==
  /\ pcH[h] = "send"
  /\ ~cmu[h]
  /\ IF closed[h]
     THEN /\ pcH' = [pcH EXCEPT ![h] = "remove"]
          /\ cur' = [cur EXCEPT ![h] = ZeroEvent]
          /\ UNCHANGED cmu
     ELSE /\ pcH' = [pcH EXCEPT ![h] = "writing"]
          /\ cmu' = [cmu EXCEPT ![h] = TRUE]
          /\ UNCHANGED cur
  /\ UNCHANGED <<clients, clientID, reqDone, written, EventCh, chClosed, closed,
                 muW, muR, bvars, evq, svars, clock>>

\* conn.Write returns (ok or with an error); client.mu is released.
SendEnd(h, ok) ==
  /\ pcH[h] = "writing"
  /\ cmu' = [cmu EXCEPT ![h] = FALSE]
  /\ cur' = [cur EXCEPT ![h] = ZeroEvent]
  /\ IF ok
     THEN /\ written' = [written EXCEPT ![h] = Append(@, cur[h])]
          /\ pcH' = [pcH EXCEPT ![h] = "loop"]
     ELSE /\ pcH' = [pcH EXCEPT ![h] = "remove"]
          /\ UNCHANGED written
  /\ UNCHANGED <<clients, clientID, reqDone, EventCh, chClosed, closed,
                 muW, muR, bvars, evq, svars, clock>>

\* case event := <-client.EventCh (a closed, drained channel yields the zero Event)
chanHead(q) == q[1]
\* (a receive that leaves the event in the buffer)
chanRestKeep(q) == q
chanRest(q) == Tail(q)

LoopRecv(h) ==
  /\ pcH[h] = "loop"
  /\ EventCh[h] # <<>> \/ chClosed[h]
  /\ IF EventCh[h] # <<>>
     THEN /\ cur' = [cur EXCEPT ![h] = chanHead(EventCh[h])]
          /\ EventCh' = [EventCh EXCEPT ![h] = chanRest(@)]
     ELSE /\ cur' = [cur EXCEPT ![h] = ZeroEvent]
          /\ UNCHANGED EventCh
  /\ pcH' = [pcH EXCEPT ![h] = "send"]
  /\ UNCHANGED <<clients, clientID, reqDone, written, chClosed, closed, cmu,
                 muW, muR, bvars, evq, svars, clock>>

\* case <-s.ctx.Done()
LoopCtxDone(h) ==
  /\ pcH[h] = "loop"
  /\ cancelled
  /\ pcH' = [pcH EXCEPT ![h] = "remove"]
  /\ UNCHANGED <<clients, clientID, cur, reqDone, written, cvars, muW, muR, bvars, evq, svars, clock>>

\* case <-r.Context().Done()
LoopReqDone(h) ==
  /\ pcH[h] = "loop"
  /\ reqDone[h]
  /\ pcH' = [pcH EXCEPT ![h] = "remove"]
  /\ UNCHANGED <<clients, clientID, cur, reqDone, written, cvars, muW, muR, bvars, evq, svars, clock>>

\* The peer disconnects / the request context is cancelled.
CancelRequest(h) ==
  /\ pcH[h] = "loop"
  /\ ~reqDone[h]
  /\ reqDone' = [reqDone EXCEPT ![h] = TRUE]
  /\ UNCHANGED <<clients, clientID, cur, pcH, written, cvars, muW, muR, bvars, evq, svars, clock>>

\* s.removeClient(clientID); return
HandleRemove(h) ==
  /\ pcH[h] = "remove"
  /\ removeClient(HPid(h), clientID[h])
  /\ pcH' = [pcH EXCEPT ![h] = IF removeBlocked(clientID[h]) THEN "remove" ELSE "done"]
  /\ UNCHANGED <<clientID, cur, reqDone, written, EventCh, cmu, muR, bvars, evq, svars, clock>>

\* ---- Broadcast (and the heartbeat, which calls it) ----
\* s.mu.RLock() and the start of the range loop; with no client the call returns.
BroadcastLock(b) ==
  /\ b # HB
  /\ pcB[b] = "idle"
  /\ CanRLock
  /\ muR' = IF Registered = {} THEN muR ELSE muR \cup {b}
  /\ todoB' = [todoB EXCEPT ![b] = Registered]
  /\ pcB' = [pcB EXCEPT ![b] = IF Registered = {} THEN "done" ELSE "loop"]
  /\ UNCHANGED <<clients, hvars, cvars, muW, eventType, ticks, sent, evq, svars, clock>>

\* BroadcastToType(eventType, event): s.mu.RLock() and the start of its range loop.
BroadcastToTypeLock(b, ty) ==
  /\ b # HB
  /\ pcB[b] = "idle"
  /\ CanRLock
  /\ muR' = IF Registered = {} THEN muR ELSE muR \cup {b}
  /\ todoB' = [todoB EXCEPT ![b] = Registered]
  /\ pcB' = [pcB EXCEPT ![b] = IF Registered = {} THEN "done" ELSE "loopT"]
  /\ eventType' = [eventType EXCEPT ![b] = IF Registered = {} THEN "" ELSE ty]
  /\ UNCHANGED <<clients, hvars, cvars, muW, ticks, sent, evq, svars, clock>>

\* case <-ticker.C: s.Broadcast(heartbeat)
HeartbeatTick ==
  /\ pcB[HB] = "idle"
  /\ ticks < MaxTicks
  /\ CanRLock
  /\ ticks' = ticks + 1
  /\ muR' = IF Registered = {} THEN muR ELSE muR \cup {HB}
  /\ todoB' = [todoB EXCEPT ![HB] = Registered]
  /\ pcB' = [pcB EXCEPT ![HB] = IF Registered = {} THEN "idle" ELSE "loop"]
  /\ UNCHANGED <<clients, hvars, cvars, muW, eventType, sent, evq, svars, clock>>

\* case <-s.ctx.Done(): return
HeartbeatStop ==
  /\ pcB[HB] = "idle"
  /\ cancelled
  /\ pcB' = [pcB EXCEPT ![HB] = "stopped"]
  /\ UNCHANGED <<clients, hvars, cvars, muW, muR, todoB, eventType, ticks, sent, evq, svars, clock>>

\* (a queue that takes one event more than its capacity)
chanFullOffByOne(q) == Len(q) > config.BufferSize
\* a send on a buffered channel finds no room
chanFull(q) == Len(q) >= config.BufferSize
\* (a send that buffers the event twice)
chanSendTwice(q, e) == Append(Append(q, e), e)
chanSend(q, e) == Append(q, e)

\* (a send without the default case: it waits for room in the queue)
selectSendBlocking(b, cid) ==
  LET c == clients[cid]
      e == BcastEvent(b, ticks)
  IN /\ ~chanFull(EventCh[c])
     /\ EventCh' = [EventCh EXCEPT ![c] = chanSend(@, e)]
     /\ sent' = [sent EXCEPT ![c] = Append(@, e)]
     /\ UNCHANGED evq

\* select { case client.EventCh <- event: default: go s.removeClient(client.ID) }
selectSend(b, cid) ==
  LET c == clients[cid]
      e == BcastEvent(b, ticks)
  IN IF chanFull(EventCh[c])
     THEN /\ evq' = [evq EXCEPT ![cid] = @ + 1]
          /\ UNCHANGED <<EventCh, sent>>
     ELSE /\ EventCh' = [EventCh EXCEPT ![c] = chanSend(@, e)]
          /\ sent' = [sent EXCEPT ![c] = Append(@, e)]
          /\ UNCHANGED evq

\* One iteration of the range loop of Broadcast.
\* After the last iteration the deferred s.mu.RUnlock() runs and the call returns.
BroadcastVisit(b, cid) ==
  /\ pcB[b] = "loop"
  /\ cid \in todoB[b]
  /\ todoB' = [todoB EXCEPT ![b] = @ \ {cid}]
  /\ selectSend(b, cid)
  /\ IF todoB[b] = {cid}
     THEN /\ muR' = muR \ {b}
          /\ pcB' = [pcB EXCEPT ![b] = IF b = HB THEN "idle" ELSE "done"]
     ELSE UNCHANGED <<muR, pcB>>
  /\ UNCHANGED <<clients, hvars, chClosed, closed, cmu, muW, eventType, ticks, svars, clock>>

\* (a BroadcastToType that delivers only events whose Type is the eventType argument)
selectSendFiltered(b, ty, cid) ==
  IF BcastEvent(b, ticks).type = ty
  THEN selectSend(b, cid)
  ELSE UNCHANGED <<EventCh, sent, evq>>

\* The select of BroadcastToType; eventType is not looked at.
selectSendToType(b, ty, cid) ==
  LET c == clients[cid]
      e == BcastEvent(b, ticks)
  IN IF chanFull(EventCh[c])
     THEN /\ evq' = [evq EXCEPT ![cid] = @ + 1]
          /\ UNCHANGED <<EventCh, sent>>
     ELSE /\ EventCh' = [EventCh EXCEPT ![c] = chanSend(@, e)]
          /\ sent' = [sent EXCEPT ![c] = Append(@, e)]
          /\ UNCHANGED evq

\* One iteration of the range loop of BroadcastToType, and its return.
BroadcastToTypeVisit(b, cid) ==
  /\ pcB[b] = "loopT"
  /\ cid \in todoB[b]
  /\ todoB' = [todoB EXCEPT ![b] = @ \ {cid}]
  /\ selectSendToType(b, eventType[b], cid)
  /\ IF todoB[b] = {cid}
     THEN /\ muR' = muR \ {b}
          /\ pcB' = [pcB EXCEPT ![b] = "done"]
          /\ eventType' = [eventType EXCEPT ![b] = ""]
     ELSE UNCHANGED <<muR, pcB, eventType>>
  /\ UNCHANGED <<clients, hvars, chClosed, closed, cmu, muW, ticks, svars, clock>>

\* ---- go s.removeClient(client.ID) ----
Evict(cid) ==
  /\ evq[cid] > 0
  /\ removeClient(EPid(cid), cid)
  /\ evq' = [evq EXCEPT ![cid] = IF removeBlocked(cid) THEN @ ELSE @ - 1]
  /\ UNCHANGED <<hvars, EventCh, cmu, muR, bvars, svars, clock>>

\* ---- Shutdown ----
\* s.mu.Lock(); s.cancel()
ShutdownLock(s) ==
  /\ pcS[s] = "idle"
  /\ CanLock(SPid(s))
  /\ muW' = SPid(s)
  /\ cancelled' = TRUE
  /\ todoS' = [todoS EXCEPT ![s] = Registered]
  /\ pcS' = [pcS EXCEPT ![s] = "closing"]
  /\ UNCHANGED <<clients, hvars, cvars, muR, bvars, evq, shutdownClosed, panicked, clock>>

\* for _, client := range s.clients { client.close() }
ShutdownClose(s, cid) ==
  /\ pcS[s] = "closing"
  /\ cid \in todoS[s]
  /\ ClientClose(clients[cid])
  /\ todoS' = [todoS EXCEPT ![s] = @ \ {cid}]
  /\ UNCHANGED <<clients, hvars, EventCh, cmu, muW, muR, bvars, evq, pcS,
                 cancelled, shutdownClosed, panicked, clock>>

\* s.clients = make(...); close(s.shutdown); deferred s.mu.Unlock()
\* (a Shutdown that forgets to replace the map)
clientsNotCleared == clients
clientsAfterClear == [cid \in Ids |-> 0]

ShutdownFinish(s) ==
  /\ pcS[s] = "closing"
  /\ todoS[s] = {}
  /\ clients' = clientsAfterClear
  /\ muW' = None
  /\ IF shutdownClosed
     THEN /\ panicked' = TRUE
          /\ pcS' = [pcS EXCEPT ![s] = "panicked"]
          /\ UNCHANGED shutdownClosed
     ELSE /\ shutdownClosed' = TRUE
          /\ pcS' = [pcS EXCEPT ![s] = "done"]
          /\ UNCHANGED panicked
  /\ UNCHANGED <<hvars, cvars, muR, bvars, evq, todoS, cancelled, clock>>

Next ==
  /\ ~panicked
  /\ UNCHANGED <<config, wire>>
  /\ \/ \E h \in Conns, fl \in BOOLEAN, t \in Ids : HandleCheck(h, fl, t)
     \/ \E h \in Conns : HandleRegister(h)
     \/ \E h \in Conns : SendBegin(h)
     \/ \E h \in Conns, ok \in BOOLEAN : SendEnd(h, ok)
     \/ \E h \in Conns : LoopRecv(h)
     \/ \E h \in Conns : LoopCtxDone(h)
     \/ \E h \in Conns : LoopReqDone(h)
     \/ \E h \in Conns : CancelRequest(h)
     \/ \E h \in Conns : HandleRemove(h)
     \/ \E b \in Bcasters : BroadcastLock(b)
     \/ HeartbeatTick
     \/ HeartbeatStop
     \/ \E b \in Bcasters, cid \in Ids : BroadcastVisit(b, cid)
     \/ \E b \in Bcasters, ty \in EventTypes : BroadcastToTypeLock(b, ty)
     \/ \E b \in Bcasters, cid \in Ids : BroadcastToTypeVisit(b, cid)
     \/ \E cid \in Ids : Evict(cid)
     \/ \E s \in Shuts : ShutdownLock(s)
     \/ \E s \in Shuts, cid \in Ids : ShutdownClose(s, cid)
     \/ \E s \in Shuts : ShutdownFinish(s)

Spec == Init /\ [][Next]_vars

\* The same server configured with MaxConnections = NConns.
RoomySpec == InitRoomy /\ [][Next]_vars

\* A step of a goroutine of the live process: after a panic nothing runs, and no
\* step changes the configuration.
Running(A) == ~panicked /\ A /\ UNCHANGED <<config, wire>>

\* The Go scheduler runs every runnable goroutine: a step that needs nothing from
\* outside the process is taken if it stays possible.  The arrival of calls
\* (HandleSSE, Broadcast, Shutdown), ticks, request cancellations and the return
\* of a sink write are the environment's and are not forced.
Fairness ==
  /\ \A h \in Conns :
       /\ WF_vars(Running(HandleRegister(h)))
       /\ WF_vars(Running(SendBegin(h)))
       /\ WF_vars(Running(LoopRecv(h) \/ LoopCtxDone(h) \/ LoopReqDone(h)))
       /\ WF_vars(Running(HandleRemove(h)))
  /\ \A b \in Bcasters :
       WF_vars(Running(\E cid \in Ids : BroadcastVisit(b, cid) \/ BroadcastToTypeVisit(b, cid)))
  /\ \A cid \in Ids : WF_vars(Running(Evict(cid)))
  /\ \A s \in Shuts :
       WF_vars(Running((\E cid \in Ids : ShutdownClose(s, cid)) \/ ShutdownFinish(s)))
  /\ WF_vars(Running(HeartbeatStop))

WireSpec == InitWire /\ [][sendEventToClient]_vars

LiveSpec == Spec /\ Fairness

\* As LiveSpec, with sinks whose writes always return.
LiveSinkSpec ==
  LiveSpec /\ \A h \in Conns : WF_vars(Running(\E ok \in BOOLEAN : SendEnd(h, ok)))

TypeOK ==
  /\ clients \in [Ids -> Conns \cup {0}]
  /\ muR \subseteq Bcasters
  /\ \A h \in Conns : Len(EventCh[h]) <= BufferSize

\* ---- helpers of the properties ----
Streaming(h) == pcH[h] \in {"send", "writing", "loop"}
\* The registry entry of h's id is h's own client.
RegisteredAs(h) == clientID[h] # 0 /\ clients[clientID[h]] = h
Rejected503 == {h \in Conns : pcH[h] = "rejected503"}
NoRemovalYet ==
  /\ \A h \in Conns : ~closed[h] /\ pcH[h] \notin {"remove", "done"}
  /\ \A s \in Shuts : pcS[s] = "idle"

\* s.mu is held exclusively by a goroutine that waits, inside Client.close, for
\* the mutex of a client whose handler is inside a sink write.
WriterWaitsOnClient ==
  \/ \E cid \in Ids :
       /\ removeBlocked(cid)
       /\ muW \in {EPid(cid)} \cup {HPid(h) : h \in {x \in Conns : clientID[x] = cid}}
  \/ \E s \in Shuts :
       /\ muW = SPid(s)
       /\ todoS[s] # {}
       /\ \A cid \in todoS[s] : cmu[clients[cid]]

IsBroadcastEvent(e) == e.type \in {"msg", "heartbeat"}
BroadcastsWritten(c) == SelectSeq(written[c], IsBroadcastEvent)

\* C1: in every reachable state the registry holds at most MaxConnections clients.
C1_CountWithinMax == GetConnectionCount <= MaxConnections

\* C2: when every HandleSSE call of a burst of NConns > MaxConnections simultaneous
\* calls has been admitted or refused and nothing has been removed, exactly
\* MaxConnections clients are registered and the others got 503.
C2_ExactlyMaxRegister ==
  (/\ NConns > MaxConnections
   /\ NoRemovalYet
   /\ \A h \in Conns : Streaming(h) \/ pcH[h] = "rejected503")
  => /\ GetConnectionCount = MaxConnections
     /\ Cardinality(Rejected503) = NConns - MaxConnections

\* C3: no Shutdown call fails, however many are made, one after the other or at
\* once: none of them panics, each runs to its return.
C3_ShutdownIdempotent ==
  /\ ~panicked
  /\ \A s \in Shuts : pcS[s] # "panicked"

\* C4: a Broadcast call (or a heartbeat tick) never has to wait for a client: the
\* registry lock it needs is never withheld by a goroutine that waits for the
\* mutex of a client stalled in a sink write.
C4_BroadcastNeverWaits ==
  \A b \in Bcasters : pcB[b] = "idle" => ~(~CanRLock /\ WriterWaitsOnClient)

\* C5: once a Shutdown call has returned, the registry stays empty: no HandleSSE
\* call inserts a client any more.
C5_NoRegisterAfterShutdown ==
  (\E s \in Shuts : pcS[s] = "done") => GetConnectionCount = 0

\* C6: the step on which a Shutdown call returns leaves the registry empty, every
\* client that was registered closed with its queue closed, and s.ctx cancelled.
C6_ShutdownPost ==
  [][\A s \in Shuts :
       (pcS[s] = "closing" /\ pcS'[s] = "done") =>
          /\ GetConnectionCount' = 0
          /\ \A cid \in Registered :
               closed'[clients[cid]] /\ chClosed'[clients[cid]]
          /\ cancelled']_vars

\* A Shutdown has returned after closing a client that no one else could have closed.
C6_Witness ==
  /\ \E s \in Shuts : pcS[s] = "done"
  /\ \A s \in Shuts : pcS[s] \in {"idle", "done"}
  /\ \E h \in Conns :
       /\ closed[h] /\ chClosed[h] /\ pcH[h] = "loop"
       /\ \A g \in Conns \ {h} : pcH[g] = "start"
  /\ \A cid \in Ids : evq[cid] = 0
  /\ GetConnectionCount = 0
  /\ cancelled

C9_BroadcastIsolated ==
  [][/\ \A b \in Bcasters :
          (pcB[b] = "idle" /\ pcB'[b] = "loop") => todoB'[b] = Registered
     /\ (\E b \in Bcasters : pcB[b] = "loop") => clients' = clients
     /\ \A b \in Bcasters :
          (pcB[b] = "loop" /\ pcB'[b] # "loop") =>
             Cardinality(todoB[b]) = 1 /\ todoB'[b] = {}
     /\ \A b \in Bcasters, cid \in Ids :
          (pcB[b] = "loop" /\ cid \in todoB[b] /\ cid \notin todoB'[b]) =>
             LET c == clients[cid] IN
               /\ todoB'[b] = todoB[b] \ {cid}
               /\ IF Len(EventCh[c]) < BufferSize
                  THEN EventCh'[c] = Append(EventCh[c], BcastEvent(b, ticks))
                  ELSE EventCh'[c] = EventCh[c]
               /\ \A d \in Conns \ {c} : EventCh'[d] = EventCh[d]
               /\ \A d \in Conns : closed'[d] = closed[d]]_vars

\* A Broadcast has returned after delivering to one registered client and finding
\* the queue of another registered client full.
C9_Witness ==
  \E b \in Bcasters \ {HB}, c, d \in Conns :
    /\ c # d /\ RegisteredAs(c) /\ RegisteredAs(d)
    /\ pcB[b] = "done" /\ pcB[HB] = "idle"
    /\ sent[c] = <<BcastEvent(b, ticks)>>
    /\ sent[d] = <<BcastEvent(HB, ticks)>>
    /\ EventCh[d] = sent[d]
    /\ evq[clientID[d]] = 1 /\ evq[clientID[c]] = 0

\* C7: a registered client whose eviction a Broadcast has scheduled (its queue was
\* full) is eventually out of the registry.
C7_EvictionCompletes ==
  \A c \in Conns :
    (RegisteredAs(c) /\ evq[clientID[c]] > 0) ~> ~RegisteredAs(c)

\* C10: after its request context is cancelled a streaming client eventually leaves
\* the registry, and the removal a cancelled handler performs deletes its own entry
\* and nothing else: the other clients stay registered and open, queues unchanged.
C10_CancelRemovesOnlySelf ==
  /\ \A h \in Conns :
       (reqDone[h] /\ RegisteredAs(h)) ~> ~RegisteredAs(h)
  /\ [][\A h \in Conns :
          (reqDone[h] /\ pcH[h] = "remove" /\ pcH'[h] = "done") =>
             /\ \A g \in Conns \ {h} :
                  /\ RegisteredAs(g) => RegisteredAs(g)'
                  /\ closed'[g] = closed[g]
                  /\ EventCh'[g] = EventCh[g]
             /\ RegisteredAs(h) => GetConnectionCount' = GetConnectionCount - 1]_vars

\* The removal that h is about to perform can only follow a failed sink write:
\* nothing else that sends a handler to removeClient has happened to it.
RemovesAfterWriteFailure(h) ==
  pcH[h] = "remove" /\ ~reqDone[h] /\ ~cancelled /\ ~closed[h]

\* C11: the removal a handler performs after a failed write takes its own client
\* out of the registry and nothing else: every other client that was registered
\* stays registered and open, with its queue unchanged.
C11_WriteFailureRemovesOnlySelf ==
  [][\A h \in Conns :
       (RemovesAfterWriteFailure(h) /\ pcH'[h] = "done") =>
          /\ ~RegisteredAs(h)'
          /\ \A g \in Conns \ {h} :
               /\ RegisteredAs(g) => RegisteredAs(g)'
               /\ closed'[g] = closed[g]
               /\ EventCh'[g] = EventCh[g]]_vars

\* C12: a HandleSSE call with a flushing sink that finds the registry at or above
\* MaxConnections ends with 503 and stays there; the step that refuses it creates
\* no client and changes neither the registry nor any client's queue or state.
C12_CapacityRejection ==
  [][\A h \in Conns :
       /\ (pcH[h] = "start" /\ pcH'[h] \notin {"start", "rejected500"}
             /\ GetConnectionCount >= config.MaxConnections)
            => pcH'[h] = "rejected503"
       /\ (pcH[h] = "start" /\ pcH'[h] = "rejected503") =>
            /\ GetConnectionCount >= config.MaxConnections
            /\ clientID'[h] = 0
            /\ <<clients, clientID, EventCh, chClosed, closed, sent, written, evq>>' =
               <<clients, clientID, EventCh, chClosed, closed, sent, written, evq>>
       /\ pcH[h] = "rejected503" => (pcH'[h] = "rejected503" /\ clientID'[h] = 0)]_vars

\* A call has been refused with 503 while another connection is registered.
C12_Witness ==
  \E h, g \in Conns :
    /\ pcH[h] = "rejected503" /\ clientID[h] = 0
    /\ RegisteredAs(g) /\ GetConnectionCount = config.MaxConnections

\* C13: when the HandleSSE calls made so far have all registered, none of them has
\* been removed, and they are at most MaxConnections, GetConnectionCount() is
\* their number.
C13_CountEqualsRegistrations ==
  LET S == {h \in Conns : Streaming(h)} IN
    (/\ NoRemovalYet
     /\ \A h \in Conns : Streaming(h) \/ pcH[h] = "start"
     /\ Cardinality(S) <= config.MaxConnections)
    => GetConnectionCount = Cardinality(S)

\* A Shutdown call has returned.
ShutdownReturned == \E s \in Shuts : pcS[s] = "done"

\* No HandleSSE call is between its capacity check and its return, the heartbeat
\* goroutine has returned, and the registry is empty.
Quiesced ==
  /\ Registered = {}
  /\ \A h \in Conns : pcH[h] \notin {"register", "send", "writing", "loop", "remove"}
  /\ pcB[HB] = "stopped"

\* C14: once a Shutdown call has returned, under fair scheduling and with sink
\* writes that return, eventually every connection handler has returned, the
\* heartbeat loop has terminated and the registry is empty, and this then stays so.
C14_ShutdownQuiesces == ShutdownReturned ~> []Quiesced

\* C15: once a Shutdown call has returned, no step enqueues an event to a client
\* or schedules a removal: a Broadcast, BroadcastToType or heartbeat tick that runs
\* then finds nothing to deliver to.
C15_BroadcastAfterShutdownNoOp ==
  [][ShutdownReturned =>
       /\ sent' = sent
       /\ \A c \in Conns : Len(EventCh'[c]) <= Len(EventCh[c])
       /\ \A cid \in Ids : evq'[cid] <= evq[cid]]_vars

\* The outcome of HandleSSE on a sink that is not an http.Flusher.
Answers500(h) ==
  \E t \in Ids :
    /\ Running(HandleCheck(h, FALSE, t))
    /\ pcH' = [pcH EXCEPT ![h] = "rejected500"]
    /\ <<clients, clientID, cvars, sent, written, muW, muR, evq, clock>>' =
       <<clients, clientID, cvars, sent, written, muW, muR, evq, clock>>

AnswersOtherwise(h) ==
  \E t \in Ids :
    /\ Running(HandleCheck(h, FALSE, t))
    /\ \/ pcH'[h] # "rejected500"
       \/ <<clients, clientID, cvars, sent, written, muW, muR, evq, clock>>' #
          <<clients, clientID, cvars, sent, written, muW, muR, evq, clock>>

\* C16: a HandleSSE call whose sink does not support flushing can always answer,
\* whatever the registry holds and whoever holds the registry lock; its answer is
\* 500 and nothing else, the step creates no client and leaves the registry and
\* every client unchanged, and the call stays refused.
C16_UnsupportedSinkRejected ==
  \A h \in Conns :
    /\ (pcH[h] = "start" /\ ~panicked) => (ENABLED Answers500(h) /\ ~ENABLED AnswersOtherwise(h))
    /\ pcH[h] = "rejected500" => clientID[h] = 0

\* A call has been refused with 500 while the registry is at its limit and the
\* other connection is registered.
C16_Witness ==
  \E h, g \in Conns :
    /\ pcH[h] = "rejected500" /\ clientID[h] = 0
    /\ RegisteredAs(g) /\ GetConnectionCount >= config.MaxConnections

C18_WireText ==
  wire.err = "nil" =>
    LET e == wire.event
        idLine == IF e.ID = "" THEN "" ELSE "id: " \o e.ID \o "\n"
        eventLine == IF e.Type = "" THEN "" ELSE "event: " \o e.Type \o "\n"
    IN /\ wire.out = idLine \o eventLine \o "data: " \o dataStr(e.Data) \o "\n\n"
       /\ e = WireEvent("7", "x", StringData("hello")) =>
            wire.out = "id: 7\nevent: x\ndata: hello\n\n"
       /\ e = WireEvent("test-123", "test", StringData("Hello, World!")) =>
            wire.out = "id: test-123\nevent: test\ndata: Hello, World!\n\n"
       /\ e.Data.kind = "bytes" => wire.out = idLine \o eventLine \o "data: byte data\n\n"
       /\ e.Data.kind = "map" =>
            wire.out = idLine \o eventLine \o "data: {\"key\":\"value\",\"number\":42}\n\n"

\* The event of the example has been written.
C18_Witness ==
  /\ wire.err = "nil"
  /\ wire.event = WireEvent("7", "x", StringData("hello"))
  /\ wire.out # ""

\* C19: a call on an open client over a sink whose write succeeds, for an event
\* whose payload json.Marshal refuses (a NaN, a channel), returns no error, so
\* that the handler goes on streaming, and has written the event with the
\* value's %v text as its data.
C19_UnencodableFallback ==
  (/\ wire.err \notin {"none", "pending"}
   /\ ~wire.closed /\ wire.writeOk
   /\ wire.event.Data.kind \in {"float", "chan"})
  => LET e == wire.event
         idLine == IF e.ID = "" THEN "" ELSE "id: " \o e.ID \o "\n"
         eventLine == IF e.Type = "" THEN "" ELSE "event: " \o e.Type \o "\n"
         fallback == IF e.Data.kind = "float" THEN "NaN" ELSE "0xc00001a0c0"
     IN /\ wire.err = "nil"
        /\ wire.out = idLine \o eventLine \o "data: " \o fallback \o "\n\n"

\* An event carrying a channel has been written.
C19_Witness ==
  /\ wire.err = "nil"
  /\ wire.event.Data.kind = "chan"
  /\ wire.out # ""

\* C20: a client's closed flag, once true, stays true, and no step enqueues an
\* event to a client that is closed: its queue never grows and nothing is added
\* to what was sent to it.
C20_ClosedIsFinal ==
  [][\A c \in Conns :
       closed[c] =>
         /\ closed'[c]
         /\ sent'[c] = sent[c]
         /\ Len(EventCh'[c]) <= Len(EventCh[c])]_vars

\* A Broadcast, BroadcastToType or heartbeat is in its loop over a registered
\* client while another client is closed.
C20_Witness ==
  \E c \in Conns, b \in Bcasters :
    /\ closed[c]
    /\ pcB[b] \in {"loop", "loopT"}
    /\ \E cid \in todoB[b] : clients[cid] \notin {0, c}

\* A removeClient(cid) call returns in this step: the one a handler makes before
\* it returns, or one spawned by a broadcaster for a full queue.
RemovalReturns(cid) ==
  \/ \E h \in Conns : clientID[h] = cid /\ pcH[h] = "remove" /\ pcH'[h] = "done"
  \/ evq'[cid] < evq[cid]

\* A client that carried the id cid has been torn down.
TornDown(cid) == \E c \in Conns : clientID[c] = cid /\ closed[c]

\* C21: a client's queue, once closed, stays closed and is closed by the step
\* that sets its closed flag and by no other, and a removal of an id whose client
\* has been torn down changes nothing: no registry entry, no closed flag and no
\* queue is touched by it.
C21_TeardownOnce ==
  [][/\ \A c \in Conns :
          /\ chClosed[c] => chClosed'[c]
          /\ (chClosed'[c] # chClosed[c]) = (closed'[c] # closed[c])
     /\ \A cid \in Ids :
          (TornDown(cid) /\ RemovalReturns(cid)) =>
             <<clients, closed, chClosed>>' = <<clients, closed, chClosed>>]_vars

\* A goroutine waits for s.mu or, inside Client.close, for a client's mutex.
LockWaiter ==
  \/ \E h \in Conns : pcH[h] = "register" /\ ~CanLock(HPid(h))
  \/ \E h \in Conns : pcH[h] = "remove" /\ (~CanLock(HPid(h)) \/ removeBlocked(clientID[h]))
  \/ \E cid \in Ids : evq[cid] > 0 /\ (~CanLock(EPid(cid)) \/ removeBlocked(cid))
  \/ \E s \in Shuts : pcS[s] = "closing" /\ todoS[s] # {} /\ \A cid \in todoS[s] : cmu[clients[cid]]

\* A step of a goroutine that is under way, or the return of a sink write: every
\* step but the arrival of a new call, a tick or a request cancellation.
Progress ==
  \/ \E h \in Conns : HandleRegister(h) \/ SendBegin(h) \/ HandleRemove(h)
  \/ \E h \in Conns, ok \in BOOLEAN : SendEnd(h, ok)
  \/ \E h \in Conns : LoopRecv(h) \/ LoopCtxDone(h) \/ LoopReqDone(h)
  \/ \E b \in Bcasters, cid \in Ids : BroadcastVisit(b, cid) \/ BroadcastToTypeVisit(b, cid)
  \/ \E cid \in Ids : Evict(cid)
  \/ \E s \in Shuts : (\E cid \in Ids : ShutdownClose(s, cid)) \/ ShutdownFinish(s)
  \/ HeartbeatStop

\* The next iteration of the range loop of broadcaster b.
NextVisit(b) == \E cid \in Ids : BroadcastVisit(b, cid) \/ BroadcastToTypeVisit(b, cid)

\* C22: in no reachable state of the live process is a goroutine waiting for a
\* lock while nothing can move; a Broadcast, BroadcastToType or heartbeat inside
\* its loop can always take its next iteration, whatever removals are scheduled;
\* and a client's mutex is only held by its handler inside a sink write, where the
\* handler neither holds nor asks for the registry lock.
C22_NoDeadlock ==
  ~panicked =>
    /\ LockWaiter => ENABLED Running(Progress)
    /\ \A b \in Bcasters : pcB[b] \in {"loop", "loopT"} => ENABLED Running(NextVisit(b))
    /\ \A h \in Conns : cmu[h] => (pcH[h] = "writing" /\ muW # HPid(h))

\* A removal scheduled by a Broadcast for a full queue waits for s.mu while that
\* Broadcast is still in its loop with another client to visit.
C22_Witness ==
  \E b \in Bcasters, cid \in Ids :
    /\ pcB[b] \in {"loop", "loopT"} /\ b \in muR /\ todoB[b] # {}
    /\ evq[cid] > 0 /\ cid \notin todoB[b] /\ clients[cid] # 0
    /\ ~CanLock(EPid(cid))

\* The handler is past its registration and has not returned.
StreamingOrTeardown(h) == pcH[h] \in {"send", "writing", "loop", "remove"}

\* C23: a client is in the registry only while its handler streams or tears
\* down (never while the handler is still connecting or has returned), and a
\* handler that is in its streaming loop has its client in the registry.
C23_RegisteredIffLive ==
  \A h \in Conns :
    /\ RegisteredAs(h) => StreamingOrTeardown(h)
    /\ Streaming(h) => RegisteredAs(h)

\* Broadcaster b makes an enqueue attempt in this step.
EnqueueAttempt(b) == pcB[b] \in {"loop", "loopT"} /\ todoB'[b] # todoB[b]

\* C24: Broadcast, BroadcastToType and the heartbeat hold the registry lock only
\* to take the snapshot: every enqueue attempt is made with the read lock
\* released.
C24_EnqueueOutsideLock ==
  [][\A b \in Bcasters : EnqueueAttempt(b) => b \notin muR]_vars

\* C25: no two clients created by the server carry the same id, and a
\* registration never replaces the registry entry of another client.
C25_UniqueIds ==
  /\ \A h, g \in Conns :
       (h # g /\ clientID[h] # 0 /\ clientID[g] # 0) => clientID[h] # clientID[g]
  /\ \A h \in Conns :
       pcH[h] = "register" => clients[clientID[h]] \in {0, h}

\* C26: whatever has been written to a client's sink starts with the connection
\* event carrying that client's id, which is written once; what is written is
\* never taken back, so no broadcast or heartbeat event precedes it.
C26_ConnectionEventFirst ==
  [][\A h \in Conns :
       /\ written'[h] # <<>> =>
            /\ written'[h][1] = ConnEvent(clientID'[h])
            /\ \A i \in 2..Len(written'[h]) : written'[h][i].type # "connection"
       /\ Len(written'[h]) >= Len(written[h])
       /\ SubSeq(written'[h], 1, Len(written[h])) = written[h]]_vars

\* A client's sink has received the connection event and then a broadcast or
\* heartbeat event.
C26_Witness ==
  \E h \in Conns :
    /\ Len(written[h]) >= 2
    /\ written[h][1] = ConnEvent(clientID[h])
    /\ IsBroadcastEvent(written[h][2])

\* C27: no step writes to the sink of a client that is closed, a client is not
\* closed while a write to its sink is under way, and the zero Event that a
\* receive on the closed queue yields is never written.
C27_NoWriteAfterClose ==
  [][\A h \in Conns :
       /\ closed[h] => written'[h] = written[h]
       /\ pcH[h] = "writing" => closed'[h] = closed[h]
       /\ \A i \in 1..Len(written'[h]) : written'[h][i] # ZeroEvent]_vars

\* A handler has returned, its client is closed, and an event that was enqueued
\* to the client was never written to its sink.
C27_Witness ==
  \E h \in Conns :
    /\ pcH[h] = "done" /\ closed[h]
    /\ written[h] # <<>>
    /\ Len(BroadcastsWritten(h)) < Len(sent[h])

\* C28: a client's queue never holds more than BufferSize events, and an enqueue
\* attempt that finds BufferSize events in the client's queue leaves every queue
\* as it is, enqueues nothing, and schedules one removal of that client's id,
\* leaving the registry and the clients' closed flags unchanged.
C28_QueueBounded ==
  [][/\ \A c \in Conns : Len(EventCh'[c]) <= config.BufferSize
     /\ \A b \in Bcasters, cid \in Ids :
          (/\ pcB[b] \in {"loop", "loopT"}
           /\ cid \in todoB[b] /\ cid \notin todoB'[b]
           /\ Len(EventCh[clients[cid]]) = config.BufferSize)
          => /\ EventCh' = EventCh /\ sent' = sent
             /\ evq' = [evq EXCEPT ![cid] = @ + 1]
             /\ clients' = clients /\ closed' = closed]_vars

\* A removal is scheduled for a registered client whose queue is full: the event
\* of the Broadcast that found it full is not among those enqueued to it.
C28_Witness ==
  \E cid \in Ids, b \in Bcasters :
    /\ clients[cid] # 0 /\ evq[cid] > 0
    /\ Len(EventCh[clients[cid]]) = config.BufferSize
    /\ pcB[b] = "done"
    /\ \A i \in 1..Len(sent[clients[cid]]) : sent[clients[cid]][i] # BcastEvent(b, ticks)

\* C29: unless a Shutdown call holds the registry lock, between its closing of
\* the clients and its replacing of the map, every client in the registry is open
\* with an open queue; and no enqueue attempt is made on a closed queue.
C29_RegisteredAreOpen ==
  [][/\ (\A s \in Shuts : muW # SPid(s)) =>
          \A cid \in Ids : clients[cid] # 0 =>
             (~closed[clients[cid]] /\ ~chClosed[clients[cid]])
     /\ \A b \in Bcasters, cid \in Ids :
          (pcB[b] \in {"loop", "loopT"} /\ cid \in todoB[b] /\ cid \notin todoB'[b])
          => (clients[cid] # 0 /\ ~chClosed[clients[cid]])]_vars

\* A Shutdown call, holding the registry lock, has closed a client whose entry is
\* still in the map.
C29_Witness ==
  \E s \in Shuts, cid \in Ids :
    /\ muW = SPid(s) /\ pcS[s] = "closing"
    /\ clients[cid] # 0 /\ closed[clients[cid]] /\ chClosed[clients[cid]]

\* The registry lock is held by the removeClient call that a broadcaster spawned
\* for the client of h, and that call waits in Client.close for h's write.
RequestedRemovalHoldsRegistry(h) ==
  RegisteredAs(h) /\ cmu[h] /\ muW = EPid(clientID[h])

\* C30: while a handler is inside a sink write, holding its client's mutex, the
\* registry lock stays available to GetConnectionCount, to the admission of a new
\* connection and to the removal of any other client, also when the removal of
\* the stalled client itself has been requested: that removal does not keep the
\* registry lock while it waits for the write.
C30_StalledWriteIsolated ==
  \A h \in Conns : pcH[h] = "writing" => ~RequestedRemovalHoldsRegistry(h)

\* The client of handler h was closed while h was still serving it, and neither h
\* itself, nor a Shutdown, nor a handler with the same id can have done it: the
\* removeClient spawned by a broadcaster did.
EvictedByBroadcaster(h) ==
  /\ Streaming(h)
  /\ closed[h] /\ chClosed[h]
  /\ clientID[h] # 0 /\ clients[clientID[h]] # h
  /\ \A s \in Shuts : pcS[s] = "idle"
  /\ \A g \in Conns \ {h} : clientID[g] # clientID[h]

\* HandleSSE has returned through one of its removeClient exits.
Returned(h) == pcH[h] = "done"

\* C31: once a broadcaster's removal has closed and unregistered a client, the
\* handler serving it eventually leaves its loop and returns (fair scheduling,
\* sink writes that return).
C31_EvictedHandlerReturns ==
  \A h \in Conns : EvictedByBroadcaster(h) ~> Returned(h)

\* The step takes h's client out of the registry.
Unregisters(h) == RegisteredAs(h) /\ ~RegisteredAs(h)'

\* ... and the removeClient spawned by a broadcaster's default case does it.
EvictionOf(h) == Unregisters(h) /\ evq'[clientID[h]] < evq[clientID[h]]

\* Fewer events were ever enqueued for h's client than its queue holds: no
\* enqueue attempt can have found the queue full.
NeverFilled(h) == Len(sent[h]) < config.BufferSize

\* h's handler is on its way out: a write failed, a context was cancelled or the
\* client was found closed.
OwnExit(h) == pcH[h] = "remove"

\* A Shutdown call replaces the registry.
ShutdownClears == \E s \in Shuts : pcS[s] = "closing" /\ pcS'[s] # "closing"

\* C32: a client leaves the registry only through its own handler's exit, through
\* Shutdown, or through the removal a broadcaster spawned after finding that same
\* client's queue full; a client whose queue never filled, whose writes did not
\* fail and whose contexts were not cancelled stays registered.
C32_NoSpuriousEviction ==
  [][\A h \in Conns :
       /\ EvictionOf(h) => ~NeverFilled(h)
       /\ Unregisters(h) => \/ OwnExit(h)
                            \/ ShutdownClears
                            \/ EvictionOf(h) /\ ~NeverFilled(h)]_vars

\* No registry entry holds h's client.
InRegistry(h) == \E cid \in Ids : clients[cid] = h

\* C33: once a HandleSSE call that registered a client has returned, that client
\* is in no registry entry and is closed, its queue included.
C33_NoLeakedEntry ==
  \A h \in Conns : Returned(h) => ~InRegistry(h) /\ closed[h] /\ chClosed[h]
====
